---- MODULE Spec2Model ----
(***************************************************************************)
(* The schema migration engine of goUserAPI                                *)
(* (internal/database/migrations.go): MigrationRunner.RunMigrations,       *)
(* RollbackLastMigration and RunDownMigrations over a migrations directory *)
(* and a PostgreSQL database holding the schema_migrations ledger.         *)
(*                                                                         *)
(* Strings (file names, versions) are sequences of one-character strings,  *)
(* compared byte-wise as Go compares strings.  SQL texts are abstract      *)
(* values whose execution semantics is given by ExecSQL.                   *)
(***************************************************************************)
EXTENDS Integers, Sequences, FiniteSets, TLC

(***************************************************************************)
(* Bounds of the model.                                                    *)
(***************************************************************************)
MaxCalls == 3
MaxEdits == 1

(***************************************************************************)
(* Go strings.                                                             *)
(***************************************************************************)
Ord ==
  "-" :> 45 @@ "." :> 46 @@ "0" :> 48 @@ "1" :> 49 @@ "2" :> 50 @@ "3" :> 51 @@ "4" :> 52 @@
  "5" :> 53 @@ "6" :> 54 @@ "7" :> 55 @@ "8" :> 56 @@ "9" :> 57 @@ "_" :> 95 @@
  "a" :> 97 @@ "b" :> 98 @@ "c" :> 99 @@ "d" :> 100 @@ "e" :> 101 @@ "f" :> 102 @@
  "g" :> 103 @@ "h" :> 104 @@ "i" :> 105 @@ "j" :> 106 @@ "k" :> 107 @@ "l" :> 108 @@
  "m" :> 109 @@ "n" :> 110 @@ "o" :> 111 @@ "p" :> 112 @@ "q" :> 113 @@ "r" :> 114 @@
  "s" :> 115 @@ "t" :> 116 @@ "u" :> 117 @@ "v" :> 118 @@ "w" :> 119 @@ "x" :> 120 @@
  "y" :> 121 @@ "z" :> 122

\* a < b on Go strings: byte-wise lexicographic order.
RECURSIVE StrLessFrom(_, _, _)
StrLessFrom(a, b, k) ==
  IF k > Len(b) THEN FALSE
  ELSE IF k > Len(a) THEN TRUE
  ELSE IF a[k] = b[k] THEN StrLessFrom(a, b, k + 1)
  ELSE Ord[a[k]] < Ord[b[k]]

StrLess(a, b) == StrLessFrom(a, b, 1)

\* strings.HasSuffix
HasSuffix(s, suffix) ==
  /\ Len(s) >= Len(suffix)
  /\ SubSeq(s, Len(s) - Len(suffix) + 1, Len(s)) = suffix

\* strings.Contains
Contains(s, substr) ==
  \E k \in 0..(Len(s) - Len(substr)) : SubSeq(s, k + 1, k + Len(substr)) = substr

\* strings.TrimSuffix
TrimSuffix(s, suffix) ==
  IF HasSuffix(s, suffix) THEN SubSeq(s, 1, Len(s) - Len(suffix)) ELSE s

\* The string literals of migrations.go.
S_sql == <<".","s","q","l">>
S_down == <<"_","d","o","w","n","_">>
S_down_sql == <<"_","d","o","w","n",".","s","q","l">>
V_001 == <<"0","0","1","_","c","r","e","a","t","e","_","s","c","h","e","m","a","_","m","i","g","r","a","t","i","o","n","s","_","t","a","b","l","e">>
D_001 == <<"0","0","1","_","d","o","w","n","_","c","r","e","a","t","e","_","s","c","h","e","m","a","_","m","i","g","r","a","t","i","o","n","s","_","t","a","b","l","e",".","s","q","l">>
V_002 == <<"0","0","2","_","c","r","e","a","t","e","_","u","s","e","r","s","_","t","a","b","l","e">>
D_002 == <<"0","0","2","_","d","o","w","n","_","c","r","e","a","t","e","_","u","s","e","r","s","_","t","a","b","l","e",".","s","q","l">>
V_003 == <<"0","0","3","_","c","r","e","a","t","e","_","i","n","d","e","x","e","s">>
D_003 == <<"0","0","3","_","d","o","w","n","_","c","r","e","a","t","e","_","i","n","d","e","x","e","s",".","s","q","l">>

(***************************************************************************)
(* A value of the checksum column is a record [lit, hex]: a literal string *)
(* with hex empty, or a digest (hex) with lit empty.                       *)
(***************************************************************************)
Literal(text) == [lit |-> text, hex |-> [kind |-> "", of |-> "", rev |-> 0]]

LegacyChecksum == Literal("legacy_migration_no_checksum_available")

\* SQL NULL in the checksum column.
NULL == Literal("NULL")

(***************************************************************************)
(* SQL texts.  A text is a record [kind, of, rev]:                         *)
(*   up         creates the schema objects `of` (CREATE TABLE users ...)   *)
(*              and fails when they already exist;                         *)
(*   down       drops the schema objects `of` IF EXISTS;                   *)
(*   bad        is not valid SQL;                                          *)
(*   mkledger   CREATE TABLE IF NOT EXISTS schema_migrations + its index   *)
(*              (migrations/001_create_schema_migrations_table.sql);       *)
(*   rmledger   DROP INDEX IF EXISTS ...; DROP TABLE IF EXISTS             *)
(*              schema_migrations (001_down_create_schema_migrations_...). *)
(* rev distinguishes texts that differ only in bytes that do not change    *)
(* what the statement does (a comment, whitespace).                        *)
(***************************************************************************)
Sql(kind, of, rev) == [kind |-> kind, of |-> of, rev |-> rev]

\* calculateChecksum: hex SHA-256 of the content.  The digest is modelled as
\* a collision-free function of the bytes (hex holds the bytes hashed); it
\* is never the legacy sentinel (64 hex digits against 38 letters) nor NULL.
calculateChecksum(content) == [lit |-> "", hex |-> content]

(***************************************************************************)
(* The migrations directory: a function from the names of its entries to   *)
(* their content (an SQL text, or [kind |-> "dir"] for a sub-directory).   *)
(***************************************************************************)
F_001_a == <<"0","0","1","_","a",".","s","q","l">>
F_002_b == <<"0","0","2","_","b",".","s","q","l">>
F_003_c == <<"0","0","3","_","c",".","s","q","l">>
F_001_down_a == <<"0","0","1","_","d","o","w","n","_","a",".","s","q","l">>
F_002_down_b == <<"0","0","2","_","d","o","w","n","_","b",".","s","q","l">>
F_001_a_down_x == <<"0","0","1","_","a","_","d","o","w","n","_","x",".","s","q","l">>
F_002_b_down_x == <<"0","0","2","_","b","_","d","o","w","n","_","x",".","s","q","l">>
F_004_d_txt == <<"0","0","4","_","d",".","t","x","t">>
F_001 == V_001 \o S_sql
F_002 == V_002 \o S_sql
F_003 == V_003 \o S_sql

\* Forward scripts only.
DirPlain ==
  (F_001_a :> Sql("up", "a", 0)) @@ (F_002_b :> Sql("up", "b", 0)) @@
  (F_003_c :> Sql("up", "c", 0))

\* Forward scripts with their reverse scripts under the NNN_down_description
\* names of the repository's own migrations.
DirNamed ==
  (F_001_a :> Sql("up", "a", 0)) @@ (F_002_b :> Sql("up", "b", 0)) @@
  (F_001_down_a :> Sql("down", "a", 0)) @@ (F_002_down_b :> Sql("down", "b", 0))

\* Forward scripts with reverse scripts under names the directory scan of
\* the rollback finds: they hold "_down_" and the version.
DirScan ==
  (F_001_a :> Sql("up", "a", 0)) @@ (F_002_b :> Sql("up", "b", 0)) @@
  (F_001_a_down_x :> Sql("down", "a", 0)) @@ (F_002_b_down_x :> Sql("down", "b", 0))

\* Two of the built-in versions with reverse scripts.
DirBuiltin ==
  (F_002 :> Sql("up", "users", 0)) @@ (F_003 :> Sql("up", "indexes", 0)) @@
  (D_002 :> Sql("down", "users", 0)) @@ (D_003 :> Sql("down", "indexes", 0))

\* The repository's migrations 001 and 002 as shipped.
DirShipped ==
  (F_001 :> Sql("mkledger", "", 0)) @@ (F_002 :> Sql("up", "users", 0)) @@
  (D_001 :> Sql("rmledger", "", 0)) @@ (D_002 :> Sql("down", "users", 0))

\* Three forward scripts, the second of which is not valid SQL.
DirInvalid ==
  (F_001_a :> Sql("up", "a", 0)) @@ (F_002_b :> Sql("bad", "", 0)) @@
  (F_003_c :> Sql("up", "c", 0))

\* A forward script beside entries loadMigrationFiles must skip: a reverse
\* script, a sub-directory whose name ends in .sql and a file that is no .sql.
DirMixed ==
  (F_001_a :> Sql("up", "a", 0)) @@ (F_002_down_b :> Sql("down", "b", 0)) @@
  (F_003_c :> Sql("dir", "", 0)) @@ (F_004_d_txt :> Sql("up", "d", 0))

Dirs == {DirPlain, DirNamed, DirScan, DirBuiltin, DirShipped, DirInvalid, DirMixed}

\* os.ReadDir: the entries sorted by file name.
RECURSIVE SortedNames(_)
SortedNames(S) ==
  IF S = {} THEN <<>>
  ELSE LET m == CHOOSE x \in S : \A y \in S \ {x} : StrLess(x, y)
       IN <<m>> \o SortedNames(S \ {m})

ReadDir(d) == SortedNames(DOMAIN d)

IsDir(d, name) == d[name].kind = "dir"

\* Mutant of IsForwardFile: the "_down_" marker is not looked for.
IsSqlFile(d, name) ==
  /\ ~IsDir(d, name)
  /\ HasSuffix(name, S_sql)

\* loadMigrationFiles, lines 162-172: the entries that become migrations.
IsForwardFile(d, name) ==
  /\ ~IsDir(d, name)
  /\ HasSuffix(name, S_sql)
  /\ ~Contains(name, S_down)

\* Mutant of MigrationOf: the checksum is taken of the file name, not of
\* the content.
MigrationOfNameHash(d, filename) ==
  [Version |-> TrimSuffix(filename, S_sql),
   Filename |-> filename,
   SQLContent |-> d[filename],
   Checksum |-> calculateChecksum(Sql("name", "", 0))]

\* loadMigrationFiles, lines 174-190.
MigrationOf(d, filename) ==
  [Version |-> TrimSuffix(filename, S_sql),
   Filename |-> filename,
   SQLContent |-> d[filename],
   Checksum |-> calculateChecksum(d[filename])]

\* Mutant of VersionLess: the comparison the wrong way round.
VersionLessReversed(a, b) == StrLess(b.Version, a.Version)

\* sort.Slice(migrations, Version <), lines 194-196.
VersionLess(a, b) == StrLess(a.Version, b.Version)

\* Mutant of loadMigrationFiles: the sort is left out, the order is that of
\* os.ReadDir.
loadMigrationFilesUnsorted(d) ==
  LET entries == ReadDir(d)
      kept == SelectSeq(entries, LAMBDA n : IsForwardFile(d, n))
  IN [k \in 1..Len(kept) |-> MigrationOf(d, kept[k])]

loadMigrationFiles(d) ==
  LET entries == ReadDir(d)
      kept == SelectSeq(entries, LAMBDA n : IsForwardFile(d, n))
      migrations == [k \in 1..Len(kept) |-> MigrationOf(d, kept[k])]
  IN SortSeq(migrations, VersionLess)

\* sort.Slice(migrationFiles, Version >), lines 419-421.
VersionGreater(a, b) == StrLess(b.Version, a.Version)

\* Mutant of SortDescending: the catalog is left in ascending order.
SortNothing(migrations) == migrations

SortDescending(migrations) == SortSeq(migrations, VersionGreater)

\* The versions of a catalog, as a set.
Versions(migrations) == {migrations[k].Version : k \in 1..Len(migrations)}

\* Mutant of lastMigration: the least key of the map.
firstMigration(executed) ==
  CHOOSE v \in executed : \A w \in executed \ {v} : StrLess(v, w)

\* RollbackLastMigration, lines 330-335: the greatest key of the map.
lastMigration(executed) ==
  CHOOSE v \in executed : \A w \in executed \ {v} : StrLess(w, v)

\* Lines 350-361 and 440-451: the directory scan and the synthesized name.
\* scanned = FALSE when os.ReadDir failed (the error is ignored).
ScanDownFilename(d, version, scanned) ==
  LET files == IF scanned THEN ReadDir(d) ELSE <<>>
      hits == SelectSeq(files, LAMBDA n : Contains(n, S_down) /\ Contains(n, version))
  IN IF hits # <<>> THEN hits[1] ELSE version \o S_down_sql

\* Lines 340-362 and 430-452: the down file of a version.
DownFilename(d, version, scanned) ==
  IF version = V_001 THEN D_001
  ELSE IF version = V_002 THEN D_002
  ELSE IF version = V_003 THEN D_003
  ELSE ScanDownFilename(d, version, scanned)

(***************************************************************************)
(* The database.  db is the committed state:                               *)
(*   table        schema_migrations exists                                 *)
(*   index        idx_schema_migrations_executed_at exists                 *)
(*   checksumCol  schema_migrations has the checksum column                *)
(*   rows         the ledger: version -> [checksum, executed_at]           *)
(*   schema       the schema objects the forward scripts have created      *)
(* A transaction holds its uncommitted writes; View is what its own        *)
(* statements see, and what Commit makes the committed state.              *)
(***************************************************************************)
Restrict(f, S) == [x \in S |-> f[x]]

NoRows == Restrict(<<>>, {})

EmptyDb ==
  [table |-> FALSE, index |-> FALSE, checksumCol |-> FALSE, rows |-> NoRows,
   schema |-> {}]

NoTx ==
  [open |-> FALSE, at |-> 0, table |-> "same", ins |-> NoRows, del |-> {},
   add |-> {}, rem |-> {}]

\* db.Begin: NOW() of the transaction is its start time.
BeginTx(time) == [NoTx EXCEPT !.open = TRUE, !.at = time]

View(d, t) ==
  LET base == IF t.table = "same" THEN d.rows ELSE NoRows
      kept == Restrict(base, DOMAIN base \ t.del)
  IN [table |-> IF t.table = "same" THEN d.table ELSE t.table = "created",
      index |-> IF t.table = "same" THEN d.index ELSE t.table = "created",
      checksumCol |-> IF t.table = "same" THEN d.checksumCol ELSE t.table = "created",
      rows |-> t.ins @@ kept,
      schema |-> (d.schema \ t.rem) \cup t.add]

\* tx.Exec(content): whether the statement succeeds, and the transaction after it.
ExecSQL(d, t, content) ==
  LET v == View(d, t) IN
  CASE content.kind = "up" ->
         IF content.of \in v.schema
         THEN [ok |-> FALSE, tx |-> t]
         ELSE [ok |-> TRUE,
               tx |-> [t EXCEPT !.add = @ \cup {content.of}, !.rem = @ \ {content.of}]]
    [] content.kind = "down" ->
         [ok |-> TRUE,
          tx |-> [t EXCEPT !.add = @ \ {content.of},
                           !.rem = IF content.of \in d.schema THEN @ \cup {content.of} ELSE @]]
    [] content.kind = "mkledger" ->
         [ok |-> TRUE,
          tx |-> IF v.table THEN t
                 ELSE [t EXCEPT !.table = "created", !.ins = NoRows, !.del = {}]]
    [] content.kind = "rmledger" ->
         [ok |-> TRUE,
          tx |-> IF v.table
                 THEN [t EXCEPT !.table = "dropped", !.ins = NoRows, !.del = {}]
                 ELSE t]
    [] OTHER -> [ok |-> FALSE, tx |-> t]

\* INSERT INTO schema_migrations (version, checksum) VALUES ($1, $2), line 246:
\* executed_at defaults to NOW(); version is the primary key.
InsertRow(d, t, version, checksum) ==
  LET v == View(d, t) IN
  IF ~v.table \/ ~v.checksumCol \/ version \in DOMAIN v.rows
  THEN [ok |-> FALSE, tx |-> t]
  ELSE [ok |-> TRUE,
        tx |-> [t EXCEPT !.ins = (version :> [checksum |-> checksum, executed_at |-> t.at]) @@ @]]

\* Mutant of DeleteRow: the WHERE clause matches no row.
DeleteRowNothing(d, t, version) ==
  IF ~View(d, t).table THEN [ok |-> FALSE, tx |-> t] ELSE [ok |-> TRUE, tx |-> t]

\* DELETE FROM schema_migrations WHERE version = $1, lines 385 and 473:
\* deleting no row is no error.
DeleteRow(d, t, version) ==
  LET v == View(d, t) IN
  IF ~v.table
  THEN [ok |-> FALSE, tx |-> t]
  ELSE [ok |-> TRUE,
        tx |-> [t EXCEPT !.ins = Restrict(@, DOMAIN @ \ {version}),
                         !.del = IF t.table = "same" /\ version \in DOMAIN d.rows
                                 THEN @ \cup {version} ELSE @]]

\* Mutant of CreateTableStmt: the table is created anew (no IF NOT EXISTS
\* after a DROP).
CreateTableAnew(d) ==
  [d EXCEPT !.table = TRUE, !.checksumCol = TRUE, !.rows = NoRows]

\* createMigrationsTable, lines 105-113: CREATE TABLE IF NOT EXISTS.
CreateTableStmt(d) ==
  IF d.table THEN d
  ELSE [d EXCEPT !.table = TRUE, !.checksumCol = TRUE, !.rows = NoRows]

\* Lines 116-121: CREATE INDEX IF NOT EXISTS.
CreateIndexStmt(d) == [d EXCEPT !.index = TRUE]

\* Lines 124-129: ADD COLUMN IF NOT EXISTS checksum.
AddColumnStmt(d) == [d EXCEPT !.checksumCol = TRUE]

\* Mutant of BackfillStmt: the UPDATE has no WHERE clause.
BackfillEveryRow(d) ==
  [d EXCEPT !.rows = [v \in DOMAIN @ |-> [@[v] EXCEPT !.checksum = LegacyChecksum]]]

\* Lines 132-138: UPDATE ... SET checksum = legacy WHERE checksum IS NULL.
BackfillStmt(d) ==
  [d EXCEPT !.rows = [v \in DOMAIN @ |->
      IF @[v].checksum = NULL THEN [@[v] EXCEPT !.checksum = LegacyChecksum] ELSE @[v]]]

\* SELECT version, checksum FROM schema_migrations ORDER BY version, lines 264-277.
ExecutedRows(d) ==
  LET names == SortedNames(DOMAIN d.rows)
  IN [k \in 1..Len(names) |-> [Version |-> names[k], Checksum |-> d.rows[names[k]].checksum]]

\* Mutant of VerifyFrom: the legacy sentinel is compared like any checksum.
VerifyFromStrict(rows, migrations, k) ==
  LET match(i) == {j \in 1..Len(migrations) : migrations[j].Version = rows[i].Version}
      bad == {i \in k..Len(rows) :
                \/ match(i) = {}
                \/ \E j \in match(i) : migrations[j].Checksum # rows[i].Checksum}
  IN IF bad = {} THEN "ok"
     ELSE IF match(CHOOSE i \in bad : \A h \in bad : i <= h) = {} THEN "orphan"
     ELSE "mismatch"

\* Mutant of VerifyFrom: a row without a catalog script is skipped.
VerifyFromNoOrphan(rows, migrations, k) ==
  IF \E i \in k..Len(rows) : \E j \in 1..Len(migrations) :
       /\ migrations[j].Version = rows[i].Version
       /\ rows[i].Checksum # LegacyChecksum
       /\ migrations[j].Checksum # rows[i].Checksum
  THEN "mismatch" ELSE "ok"

\* verifyMigrationIntegrity, lines 284-307, on the rows from position k:
\* "ok", or the first error.
RECURSIVE VerifyFrom(_, _, _)
VerifyFrom(rows, migrations, k) ==
  IF k > Len(rows) THEN "ok"
  ELSE LET executed == rows[k]
           found == {j \in 1..Len(migrations) : migrations[j].Version = executed.Version}
       IN IF found = {} THEN "orphan"
          ELSE LET currentMigration == migrations[CHOOSE j \in found : \A i \in found : j <= i]
               IN IF executed.Checksum = LegacyChecksum
                  THEN VerifyFrom(rows, migrations, k + 1)
                  ELSE IF currentMigration.Checksum # executed.Checksum
                       THEN "mismatch"
                       ELSE VerifyFrom(rows, migrations, k + 1)

\* verifyMigrationIntegrity: the query, the scan of every row (a NULL checksum
\* cannot be scanned into a string), then the comparison.
verifyMigrationIntegrity(d, migrations) ==
  IF ~d.table \/ ~d.checksumCol THEN "verify_query"
  ELSE IF \E v \in DOMAIN d.rows : d.rows[v].checksum = NULL THEN "verify_scan"
  ELSE VerifyFrom(ExecutedRows(d), migrations, 1)

(***************************************************************************)
(* State.                                                                  *)
(*   dir     the migrations directory                                      *)
(*   db      the committed database                                        *)
(*   now     the database clock read by NOW(): it advances by one unit     *)
(*           with every commit and starts after the legacy rows            *)
(*   proc    per engine instance: the operation it runs, its position in   *)
(*           it (pc) and its local variables                               *)
(*   last    the call that has just returned (NoCall once the next call    *)
(*           starts or the directory is edited): its result, the scripts   *)
(*           it ran, the database before                                   *)
(*           and after it, and what the call before it was (after)         *)
(*   calls, edits   counters bounding the run                              *)
(***************************************************************************)
VARIABLES dir, db, now, proc, last, calls, edits

vars == <<dir, db, now, proc, last, calls, edits>>

Procs == {1}

IdleProc ==
  [pc |-> "idle", op |-> "", target |-> <<>>, migrations |-> <<>>, executed |-> {},
   i |-> 0, version |-> <<>>, downFilename |-> <<>>, content |-> Sql("", "", 0),
   tx |-> NoTx, ran |-> <<>>, pre |-> EmptyDb, after |-> ""]

\* A database that pre-dates checksumming: the ledger has no checksum column
\* and records the first script of DirPlain.
LegacyDb ==
  [table |-> TRUE, index |-> FALSE, checksumCol |-> FALSE,
   rows |-> (TrimSuffix(F_001_a, S_sql) :> [checksum |-> NULL, executed_at |-> 0]),
   schema |-> {"a"}]

NoCall ==
  [op |-> "", target |-> <<>>, err |-> "", migrations |-> <<>>, executed |-> {},
   ran |-> <<>>, pre |-> EmptyDb, post |-> EmptyDb, dir |-> <<>>, after |-> "",
   fault |-> FALSE]

Init ==
  /\ \/ dir \in Dirs /\ db = EmptyDb
     \/ dir = DirPlain /\ db = LegacyDb
  /\ now = 1
  /\ proc = [p \in Procs |-> IdleProc]
  /\ last = NoCall
  /\ calls = 0
  /\ edits = 0

\* The rollback targets tried: "" (below every version) and "002" (between
\* the versions 001_... and 002_...).
Targets == {<<>>, <<"0", "0", "2">>}

\* The operation returns err ("" for nil); dbAfter is the database it leaves;
\* fault tells that a failing system call or a crash ended it.
ReturnWith(p, err, dbAfter, fault) ==
  /\ proc' = [proc EXCEPT ![p] = IdleProc]
  /\ last' =
       [op |-> proc[p].op, target |-> proc[p].target, err |-> err,
        migrations |-> proc[p].migrations, executed |-> proc[p].executed,
        ran |-> proc[p].ran, pre |-> proc[p].pre, post |-> dbAfter, dir |-> dir,
        after |-> proc[p].after, fault |-> fault]

Return(p, err, dbAfter) == ReturnWith(p, err, dbAfter, FALSE)

\* The errors RunMigrations returns after its loop has ended (lines 92-95).
VerifyErrors == {"verify_query", "verify_scan", "orphan", "mismatch"}

\* What a call comes after: "up_done" after a RunMigrations over the same
\* directory whose loop ran to its end, "up_aborted" after one that returned
\* from inside the loop or before it, "" otherwise.
After(l, d) ==
  IF l.op = "up" /\ l.dir = d
  THEN IF l.err \in {""} \cup VerifyErrors THEN "up_done" ELSE "up_aborted"
  ELSE ""

\* main(): one of the actions up, rollback-last, down, status is invoked.
Call(p, o, t) ==
  /\ proc[p].pc = "idle"
  /\ calls < MaxCalls
  /\ calls' = calls + 1
  /\ proc' = [proc EXCEPT ![p] =
       [IdleProc EXCEPT !.op = o, !.target = t, !.pre = db, !.after = After(last, dir),
                        !.pc = IF o = "up" THEN "create_table" ELSE "get_executed"]]
  /\ last' = NoCall
  /\ UNCHANGED <<dir, db, now, edits>>

\* createMigrationsTable: its four statements, each committed on its own.
CreateTable(p) ==
  /\ proc[p].pc = "create_table"
  /\ db' = CreateTableStmt(db)
  /\ proc' = [proc EXCEPT ![p].pc = "create_index"]
  /\ UNCHANGED <<dir, now, last, calls, edits>>

CreateIndex(p) ==
  /\ proc[p].pc = "create_index"
  /\ IF db.table
     THEN /\ db' = CreateIndexStmt(db)
          /\ proc' = [proc EXCEPT ![p].pc = "add_column"]
          /\ UNCHANGED last
     ELSE /\ Return(p, "create_table", db)
          /\ UNCHANGED db
  /\ UNCHANGED <<dir, now, calls, edits>>

AddColumn(p) ==
  /\ proc[p].pc = "add_column"
  /\ IF db.table
     THEN /\ db' = AddColumnStmt(db)
          /\ proc' = [proc EXCEPT ![p].pc = "backfill"]
          /\ UNCHANGED last
     ELSE /\ Return(p, "create_table", db)
          /\ UNCHANGED db
  /\ UNCHANGED <<dir, now, calls, edits>>

Backfill(p) ==
  /\ proc[p].pc = "backfill"
  /\ IF db.table /\ db.checksumCol
     THEN /\ db' = BackfillStmt(db)
          /\ proc' = [proc EXCEPT ![p].pc = "load"]
          /\ UNCHANGED last
     ELSE /\ Return(p, "create_table", db)
          /\ UNCHANGED db
  /\ UNCHANGED <<dir, now, calls, edits>>

\* Mutant of NextPending: isMigrationExecuted is not consulted.
NextPendingAll(migrations, executed, k) == k

\* RunMigrations, lines 78-79: the next migration of the loop that is not
\* executed, from position k; Len + 1 when the loop ends.
RECURSIVE NextPending(_, _, _)
NextPending(migrations, executed, k) ==
  IF k > Len(migrations) THEN k
  ELSE IF migrations[k].Version \notin executed THEN k
  ELSE NextPending(migrations, executed, k + 1)

\* RunDownMigrations, lines 424-426: the next migration of the loop to roll back.
RECURSIVE NextCandidate(_, _, _, _)
NextCandidate(migrations, executed, target, k) ==
  IF k > Len(migrations) THEN k
  ELSE IF /\ ~Contains(migrations[k].Version, S_down)
          /\ migrations[k].Version \in executed
          /\ StrLess(target, migrations[k].Version)
       THEN k
  ELSE NextCandidate(migrations, executed, target, k + 1)

\* The loop of RunMigrations goes on from position k: executeMigration on the
\* next pending migration, or verifyMigrationIntegrity after the last.
UpLoop(p, migrations, executed, k) ==
  LET j == NextPending(migrations, executed, k) IN
  proc' = [proc EXCEPT
    ![p].migrations = migrations, ![p].executed = executed, ![p].i = j,
    ![p].pc = IF j > Len(migrations) THEN "verify" ELSE "begin",
    ![p].version = IF j > Len(migrations) THEN <<>> ELSE migrations[j].Version,
    ![p].ran = IF j > Len(migrations) THEN @ ELSE Append(@, migrations[j].Version),
    ![p].tx = NoTx]

\* The loop of RunDownMigrations goes on from position k: the next candidate,
\* or return nil after the last.
DownLoop(p, migrations, k, dbAfter) ==
  LET j == NextCandidate(migrations, proc[p].executed, proc[p].target, k) IN
  IF j > Len(migrations)
  THEN Return(p, "", dbAfter)
  ELSE /\ proc' = [proc EXCEPT
            ![p].migrations = migrations, ![p].i = j, ![p].pc = "resolve",
            ![p].version = migrations[j].Version,
            ![p].ran = Append(@, migrations[j].Version), ![p].tx = NoTx]
       /\ UNCHANGED last

\* showMigrationStatus, lines 141-154 of cmd/migrate/main.go: the migrations
\* it prints as pending.
PendingReported(migrations, executed) ==
  SelectSeq(migrations, LAMBDA m : m.Version \notin executed)

\* loadMigrationFiles, called by RunMigrations (line 61), by RunDownMigrations
\* (line 412, followed by the descending sort) and by showMigrationStatus,
\* which then prints and ends.
LoadFiles(p) ==
  /\ proc[p].pc = "load"
  /\ IF proc[p].op = "up"
     THEN /\ proc' = [proc EXCEPT ![p].migrations = loadMigrationFiles(dir),
                                  ![p].pc = "get_executed"]
          /\ UNCHANGED last
     ELSE IF proc[p].op = "status"
     THEN /\ proc' = [proc EXCEPT ![p] = IdleProc]
          /\ last' = [NoCall EXCEPT
               !.op = "status", !.migrations = loadMigrationFiles(dir),
               !.executed = proc[p].executed, !.pre = proc[p].pre, !.post = db,
               !.dir = dir]
     ELSE DownLoop(p, SortDescending(loadMigrationFiles(dir)), 1, db)
  /\ UNCHANGED <<dir, db, now, calls, edits>>

\* Mutant of GetExecuted: the ledger table is created when it is missing
\* before it is read.
GetExecutedEnsuring(p) ==
  /\ proc[p].pc = "get_executed"
  /\ db' = CreateTableStmt(db)
  /\ LET executed == DOMAIN db.rows IN
     CASE proc[p].op = "up" ->
            /\ UpLoop(p, proc[p].migrations, executed, 1)
            /\ UNCHANGED last
       [] proc[p].op = "last" ->
            IF executed = {}
            THEN Return(p, "", db')
            ELSE /\ proc' = [proc EXCEPT
                      ![p].executed = executed, ![p].pc = "resolve",
                      ![p].version = lastMigration(executed),
                      ![p].ran = Append(@, lastMigration(executed))]
                 /\ UNCHANGED last
       [] OTHER ->
            /\ proc' = [proc EXCEPT ![p].executed = executed, ![p].pc = "load"]
            /\ UNCHANGED last
  /\ UNCHANGED <<dir, now, calls, edits>>

\* getExecutedMigrations: SELECT version FROM schema_migrations.
GetExecuted(p) ==
  /\ proc[p].pc = "get_executed"
  /\ LET executed == DOMAIN db.rows IN
     IF ~db.table
     THEN Return(p, "get_executed", db)
     ELSE CASE proc[p].op = "up" ->
                 /\ UpLoop(p, proc[p].migrations, executed, 1)
                 /\ UNCHANGED last
            [] proc[p].op = "last" ->
                 IF executed = {}
                 THEN Return(p, "", db)
                 ELSE /\ proc' = [proc EXCEPT
                           ![p].executed = executed, ![p].pc = "resolve",
                           ![p].version = lastMigration(executed),
                           ![p].ran = Append(@, lastMigration(executed))]
                      /\ UNCHANGED last
            [] OTHER ->
                 /\ proc' = [proc EXCEPT ![p].executed = executed, ![p].pc = "load"]
                 /\ UNCHANGED last
  /\ UNCHANGED <<dir, db, now, calls, edits>>

\* Mutant of Resolve: the transaction is opened before the down file is
\* looked for.
ResolveInTx(p) ==
  /\ proc[p].pc = "resolve"
  /\ proc' = [proc EXCEPT ![p].pc = "read", ![p].tx = BeginTx(now),
                          ![p].downFilename = DownFilename(dir, proc[p].version, TRUE)]
  /\ UNCHANGED <<dir, db, now, last, calls, edits>>

\* Lines 340-362 and 430-452: the name of the down file.
Resolve(p) ==
  /\ proc[p].pc = "resolve"
  /\ proc' = [proc EXCEPT ![p].pc = "read",
                          ![p].downFilename = DownFilename(dir, proc[p].version, TRUE)]
  /\ UNCHANGED <<dir, db, now, last, calls, edits>>

\* The same with os.ReadDir failing: the scan finds nothing.
ResolveNoScan(p) ==
  /\ proc[p].pc = "resolve"
  /\ proc' = [proc EXCEPT ![p].pc = "read",
                          ![p].downFilename = DownFilename(dir, proc[p].version, FALSE)]
  /\ UNCHANGED <<dir, db, now, last, calls, edits>>

\* Mutant of ReadDown: a version without a down file is skipped, and the
\* rollback goes on with the next candidate.
ReadDownSkipping(p) ==
  /\ proc[p].pc = "read"
  /\ LET name == proc[p].downFilename IN
     IF name \notin DOMAIN dir \/ IsDir(dir, name)
     THEN IF proc[p].op = "last"
          THEN Return(p, "", db)
          ELSE DownLoop(p, proc[p].migrations, proc[p].i + 1, db)
     ELSE /\ proc' = [proc EXCEPT ![p].pc = "begin", ![p].content = dir[name]]
          /\ UNCHANGED last
  /\ UNCHANGED <<dir, db, now, calls, edits>>

\* os.ReadFile of the down file, lines 364-369 and 454-459.
ReadDown(p) ==
  /\ proc[p].pc = "read"
  /\ LET name == proc[p].downFilename IN
     IF name \notin DOMAIN dir \/ IsDir(dir, name)
     THEN Return(p, "read_down", db)
     ELSE /\ proc' = [proc EXCEPT ![p].pc = "begin", ![p].content = dir[name]]
          /\ UNCHANGED last
  /\ UNCHANGED <<dir, db, now, calls, edits>>

\* Mutant of Waits: no statement waits for another transaction.
WaitsNever(p) == FALSE

\* The statement instance p is about to send waits for a lock that the open
\* transaction of another instance holds: a script on a schema object the
\* other created or dropped, the INSERT on a version the other inserted or
\* deleted, the DELETE on a row the other deleted, any of them on a ledger
\* table the other created or dropped.  It goes on when the other transaction
\* has ended.
Waits(p) ==
  \E q \in DOMAIN proc \ {p} :
    /\ proc[q].tx.open
    /\ LET mine == IF proc[p].op = "up"
                   THEN proc[p].migrations[proc[p].i].SQLContent
                   ELSE proc[p].content
           theirs == proc[q].tx
       IN CASE proc[p].pc = "exec" ->
                 IF mine.kind \in {"up", "down"}
                 THEN mine.of \in theirs.add \cup theirs.rem
                 ELSE mine.kind \in {"mkledger", "rmledger"} /\ theirs.table # "same"
            [] proc[p].pc = "insert" ->
                 \/ theirs.table # "same"
                 \/ proc[p].version \in DOMAIN theirs.ins \cup theirs.del
            [] proc[p].pc = "delete" ->
                 \/ theirs.table # "same"
                 \/ proc[p].version \in theirs.del
            [] OTHER -> FALSE

\* m.db.Begin, lines 233, 372 and 462.
Begin(p) ==
  /\ proc[p].pc = "begin"
  /\ proc' = [proc EXCEPT ![p].pc = "exec", ![p].tx = BeginTx(now)]
  /\ UNCHANGED <<dir, db, now, last, calls, edits>>

\* Mutant of Exec: a forward script that fails is skipped and RunMigrations
\* goes on with the next pending script.
ExecSkipping(p) ==
  /\ proc[p].pc = "exec"
  /\ ~Waits(p)
  /\ LET content == IF proc[p].op = "up"
                    THEN proc[p].migrations[proc[p].i].SQLContent
                    ELSE proc[p].content
         r == ExecSQL(db, proc[p].tx, content)
     IN IF r.ok
        THEN /\ proc' = [proc EXCEPT ![p].tx = r.tx,
                           ![p].pc = IF proc[p].op = "up" THEN "insert" ELSE "delete"]
             /\ UNCHANGED last
        ELSE IF proc[p].op = "up"
        THEN /\ UpLoop(p, proc[p].migrations, proc[p].executed, proc[p].i + 1)
             /\ UNCHANGED last
        ELSE Return(p, "exec", db)
  /\ UNCHANGED <<dir, db, now, calls, edits>>

\* tx.Exec of the script, lines 240, 379 and 468.  On an error the deferred
\* tx.Rollback discards the transaction.
Exec(p) ==
  /\ proc[p].pc = "exec"
  /\ ~Waits(p)
  /\ LET content == IF proc[p].op = "up"
                    THEN proc[p].migrations[proc[p].i].SQLContent
                    ELSE proc[p].content
         r == ExecSQL(db, proc[p].tx, content)
     IN IF r.ok
        THEN /\ proc' = [proc EXCEPT ![p].tx = r.tx,
                           ![p].pc = IF proc[p].op = "up" THEN "insert" ELSE "delete"]
             /\ UNCHANGED last
        ELSE Return(p, "exec", db)
  /\ UNCHANGED <<dir, db, now, calls, edits>>

\* executeMigration, lines 245-249.
Insert(p) ==
  /\ proc[p].pc = "insert"
  /\ ~Waits(p)
  /\ LET m == proc[p].migrations[proc[p].i]
         r == InsertRow(db, proc[p].tx, m.Version, m.Checksum)
     IN IF r.ok
        THEN /\ proc' = [proc EXCEPT ![p].tx = r.tx, ![p].pc = "commit"]
             /\ UNCHANGED last
        ELSE Return(p, "insert", db)
  /\ UNCHANGED <<dir, db, now, calls, edits>>

\* Lines 385-388 and 473-476.
Delete(p) ==
  /\ proc[p].pc = "delete"
  /\ ~Waits(p)
  /\ LET r == DeleteRow(db, proc[p].tx, proc[p].version)
     IN IF r.ok
        THEN /\ proc' = [proc EXCEPT ![p].tx = r.tx, ![p].pc = "commit"]
             /\ UNCHANGED last
        ELSE Return(p, "delete", db)
  /\ UNCHANGED <<dir, db, now, calls, edits>>

\* tx.Commit, lines 251, 390 and 478, and what the operation does next.
Commit(p) ==
  /\ proc[p].pc = "commit"
  /\ db' = View(db, proc[p].tx)
  /\ now' = now + 1
  /\ CASE proc[p].op = "up" ->
            /\ UpLoop(p, proc[p].migrations, proc[p].executed, proc[p].i + 1)
            /\ UNCHANGED last
       [] proc[p].op = "last" -> Return(p, "", db')
       [] OTHER -> DownLoop(p, proc[p].migrations, proc[p].i + 1, db')
  /\ UNCHANGED <<dir, calls, edits>>

\* Mutant of Verify: the verification is skipped when no script was pending.
VerifyOnlyAfterRun(p) ==
  /\ proc[p].pc = "verify"
  /\ LET r == IF proc[p].ran = <<>> THEN "ok"
              ELSE verifyMigrationIntegrity(db, proc[p].migrations)
     IN Return(p, IF r = "ok" THEN "" ELSE r, db)
  /\ UNCHANGED <<dir, db, now, calls, edits>>

\* verifyMigrationIntegrity and the return of RunMigrations, lines 92-99.
Verify(p) ==
  /\ proc[p].pc = "verify"
  /\ LET r == verifyMigrationIntegrity(db, proc[p].migrations)
     IN Return(p, IF r = "ok" THEN "" ELSE r, db)
  /\ UNCHANGED <<dir, db, now, calls, edits>>

\* The error an operation returns when the statement at pc fails.
ErrorAt(pc) ==
  CASE pc \in {"create_table", "create_index", "add_column", "backfill"} -> "create_table"
    [] pc = "verify" -> "verify_query"
    [] pc = "read" -> "read_down"
    [] OTHER -> pc

\* Mutant of DbFault: the statements are not in a transaction, so what ran
\* before the failing statement stays.
DbFaultKeepsWrites(p) ==
  /\ proc[p].pc \in {"create_table", "create_index", "add_column", "backfill",
                     "get_executed", "begin", "exec", "insert", "delete", "commit",
                     "verify"}
  /\ db' = View(db, proc[p].tx)
  /\ ReturnWith(p, ErrorAt(proc[p].pc), db', TRUE)
  /\ UNCHANGED <<dir, now, calls, edits>>

\* The database statement at pc fails (connection lost, context deadline):
\* the operation returns the error, an open transaction is rolled back.
DbFault(p) ==
  /\ proc[p].pc \in {"create_table", "create_index", "add_column", "backfill",
                     "get_executed", "begin", "exec", "insert", "delete", "commit",
                     "verify"}
  /\ ReturnWith(p, ErrorAt(proc[p].pc), db, TRUE)
  /\ UNCHANGED <<dir, db, now, calls, edits>>

\* os.ReadDir or os.ReadFile fails in loadMigrationFiles, or os.ReadFile of
\* the down file.
FsFault(p) ==
  /\ proc[p].pc \in {"load", "read"}
  /\ ReturnWith(p, ErrorAt(proc[p].pc), db, TRUE)
  /\ UNCHANGED <<dir, db, now, calls, edits>>

\* The process dies: nothing uncommitted survives.
Crash(p) ==
  /\ proc[p].pc # "idle"
  /\ ReturnWith(p, "crash", db, TRUE)
  /\ UNCHANGED <<dir, db, now, calls, edits>>

\* Between two calls the operator edits a forward script: other bytes with
\* the same effect.
EditFile(f) ==
  /\ \A p \in Procs : proc[p].pc = "idle"
  /\ calls > 0
  /\ edits < MaxEdits
  /\ f \in DOMAIN dir
  /\ dir[f].kind = "up"
  /\ dir' = [dir EXCEPT ![f] = Sql("up", dir[f].of, 1 - dir[f].rev)]
  /\ edits' = edits + 1
  /\ last' = NoCall
  /\ UNCHANGED <<db, now, proc, calls>>

\* A forward script written after the others, with a version below theirs.
F_000_z == <<"0","0","0","_","z",".","s","q","l">>

LateDir == (F_000_z :> Sql("up", "z", 0))

\* Between two calls the operator adds a file to the directory.
CreateFile(f) ==
  /\ \A p \in Procs : proc[p].pc = "idle"
  /\ calls > 0
  /\ edits < MaxEdits
  /\ f \notin DOMAIN dir
  /\ dir' = (f :> LateDir[f]) @@ dir
  /\ edits' = edits + 1
  /\ last' = NoCall
  /\ UNCHANGED <<db, now, proc, calls>>

\* Between two calls the operator deletes a forward script.
RemoveFile(f) ==
  /\ \A p \in Procs : proc[p].pc = "idle"
  /\ calls > 0
  /\ edits < MaxEdits
  /\ f \in DOMAIN dir
  /\ IsForwardFile(dir, f)
  /\ dir' = Restrict(dir, DOMAIN dir \ {f})
  /\ edits' = edits + 1
  /\ last' = NoCall
  /\ UNCHANGED <<db, now, proc, calls>>

Next ==
  \/ \E p \in Procs :
       \/ Call(p, "up", <<>>)
       \/ Call(p, "last", <<>>)
       \/ \E t \in Targets : Call(p, "down", t)
       \/ Call(p, "status", <<>>)
       \/ CreateTable(p)
       \/ CreateIndex(p)
       \/ AddColumn(p)
       \/ Backfill(p)
       \/ LoadFiles(p)
       \/ GetExecuted(p)
       \/ Resolve(p)
       \/ ResolveNoScan(p)
       \/ ReadDown(p)
       \/ Begin(p)
       \/ Exec(p)
       \/ Insert(p)
       \/ Delete(p)
       \/ Commit(p)
       \/ Verify(p)
       \/ DbFault(p)
       \/ FsFault(p)
       \/ Crash(p)
  \/ \E f \in DOMAIN dir : EditFile(f)
  \/ \E f \in DOMAIN dir : RemoveFile(f)
  \/ \E f \in DOMAIN LateDir : CreateFile(f)

Spec == Init /\ [][Next]_vars

(***************************************************************************)
(* The round trip: from an empty ledger (the ledger table absent, or        *)
(* present without rows) and a directory of two forward scripts that each  *)
(* have a down script, `migrate -action up`, then `-action rollback-last`  *)
(* twice.  No statement fails for a reason outside the engine and the      *)
(* directory is not edited.                                                *)
(***************************************************************************)
EmptyLedgerDb == CreateIndexStmt(CreateTableStmt(EmptyDb))

InitRoundTrip ==
  /\ dir \in {DirNamed, DirScan, DirBuiltin, DirShipped}
  /\ db \in {EmptyDb, EmptyLedgerDb}
  /\ now = 1
  /\ proc = [p \in Procs |-> IdleProc]
  /\ last = NoCall
  /\ calls = 0
  /\ edits = 0

NextRoundTrip ==
  \E p \in Procs :
    \/ calls = 0 /\ Call(p, "up", <<>>)
    \/ calls \in {1, 2} /\ Call(p, "last", <<>>)
    \/ CreateTable(p)
    \/ CreateIndex(p)
    \/ AddColumn(p)
    \/ Backfill(p)
    \/ LoadFiles(p)
    \/ GetExecuted(p)
    \/ Resolve(p)
    \/ ReadDown(p)
    \/ Begin(p)
    \/ Exec(p)
    \/ Insert(p)
    \/ Delete(p)
    \/ Commit(p)
    \/ Verify(p)

SpecRoundTrip == InitRoundTrip /\ [][NextRoundTrip]_vars

(***************************************************************************)
(* Catalog loading on its own: files are added to an empty directory in    *)
(* any order and LoadMigrationFiles is called (as `migrate -action status` *)
(* does) on every directory that results.  The names tried: zero-padded    *)
(* and unpadded prefixes, a version that is the prefix of another, a name  *)
(* with a byte below "." (file name order differs from version order), a   *)
(* doubled extension, the synthesized reverse name, a reverse script, a    *)
(* name without extension and a directory.                                 *)
(***************************************************************************)
F_010_j == <<"0","1","0","_","j",".","s","q","l">>
F_10_x == <<"1","0","_","x",".","s","q","l">>
F_2_y == <<"2","_","y",".","s","q","l">>
F_001_a_b == <<"0","0","1","_","a","-","b",".","s","q","l">>
F_001_a_sql_sql == F_001_a \o S_sql
F_001_a_down == TrimSuffix(F_001_a, S_sql) \o S_down_sql

PoolDir ==
  (F_001_a :> Sql("up", "a", 0)) @@ (F_002_b :> Sql("up", "b", 0)) @@
  (F_010_j :> Sql("up", "j", 0)) @@ (F_10_x :> Sql("up", "x", 0)) @@
  (F_2_y :> Sql("up", "y", 0)) @@ (F_001_a_b :> Sql("up", "ab", 0)) @@
  (F_001_a_sql_sql :> Sql("up", "aa", 0)) @@ (F_001_a_down :> Sql("down", "a", 0)) @@
  (F_002_down_b :> Sql("down", "b", 0)) @@ (F_004_d_txt :> Sql("up", "d", 0)) @@
  (F_003_c :> Sql("dir", "", 0))

InitCatalog ==
  /\ dir = Restrict(PoolDir, {})
  /\ db = EmptyDb
  /\ now = 1
  /\ proc = [p \in Procs |-> IdleProc]
  /\ last = NoCall
  /\ calls = 0
  /\ edits = 0

\* A file (or the sub-directory) of the pool appears in the directory.
AddFile(f) ==
  /\ f \in DOMAIN PoolDir \ DOMAIN dir
  /\ dir' = Restrict(PoolDir, DOMAIN dir \cup {f})
  /\ last' = NoCall
  /\ UNCHANGED <<db, now, proc, calls, edits>>

\* LoadMigrationFiles (lines 150-152) is called on the directory.
LoadCatalog ==
  /\ last.op = ""
  /\ last' = [NoCall EXCEPT !.op = "load", !.migrations = loadMigrationFiles(dir),
                            !.dir = dir]
  /\ UNCHANGED <<dir, db, now, proc, calls, edits>>

NextCatalog ==
  \/ \E f \in DOMAIN PoolDir : AddFile(f)
  \/ LoadCatalog

SpecCatalog == InitCatalog /\ [][NextCatalog]_vars

(***************************************************************************)
(* Properties.                                                             *)
(***************************************************************************)
SeqSet(seq) == {seq[k] : k \in 1..Len(seq)}

Ascending(seq) == \A k \in 1..(Len(seq) - 1) : StrLess(seq[k], seq[k + 1])

\* The versions of the forward scripts of directory d.
CatalogVersions(d) ==
  {TrimSuffix(f, S_sql) : f \in {g \in DOMAIN d : IsForwardFile(d, g)}}

\* The pending set: catalog versions absent from the ledger.
PendingSet(d, database) == CatalogVersions(d) \ DOMAIN database.rows

\* ran is, in ascending order, the lowest versions of the set pending.
IsPendingPrefix(ran, pending) ==
  /\ Ascending(ran)
  /\ SeqSet(ran) \subseteq pending
  /\ \A v \in pending \ SeqSet(ran) : \A w \in SeqSet(ran) : StrLess(w, v)

\* The loop of a RunMigrations call ran to its end.
LoopDone(l) == l.op = "up" /\ ~l.fault /\ l.err \in {""} \cup VerifyErrors

\* The schema objects that the forward scripts `versions` of a catalog create.
EffectsOf(migrations, versions) ==
  {migrations[k].SQLContent.of :
     k \in {j \in 1..Len(migrations) :
              migrations[j].Version \in versions /\ migrations[j].SQLContent.kind = "up"}}

\* C1: RunMigrations runs the pending scripts (catalog versions absent from
\* the ledger) one at a time in strictly ascending version order: at every
\* moment the scripts it has started are the lowest pending versions in
\* ascending order and all but the one in progress are committed; when its
\* loop ends it has run them all, and from an empty ledger the ledger then
\* holds exactly the catalog's versions.
C1_AscendingOrder ==
  /\ \A p \in Procs :
       proc[p].op = "up" =>
         /\ IsPendingPrefix(proc[p].ran, PendingSet(dir, proc[p].pre))
         /\ proc[p].pc \in {"begin", "exec", "insert", "commit"} =>
              DOMAIN db.rows = DOMAIN proc[p].pre.rows
                \cup {proc[p].ran[k] : k \in 1..(Len(proc[p].ran) - 1)}
  /\ last.op = "up" => IsPendingPrefix(last.ran, PendingSet(last.dir, last.pre))
  /\ LoopDone(last) =>
       /\ SeqSet(last.ran) = PendingSet(last.dir, last.pre)
       /\ DOMAIN last.pre.rows = {} => DOMAIN last.post.rows = CatalogVersions(last.dir)

C1_Witness ==
  /\ last.op = "up" /\ last.err = ""
  /\ DOMAIN last.pre.rows = {}
  /\ Len(last.ran) = 3
  /\ DOMAIN last.post.rows = CatalogVersions(last.dir)

\* C2: when the k-th pending script of a RunMigrations call fails (Begin,
\* script execution, ledger insert or commit), the call returns the error
\* with that script the last one attempted, and the ledger and the schema
\* are those before the call plus exactly the k-1 pending scripts before it.
C2_AbortOnFailure ==
  (last.op = "up" /\ last.err \in {"begin", "exec", "insert", "commit"}) =>
    LET k == Len(last.ran)
        done == {last.ran[j] : j \in 1..(k - 1)}
    IN /\ k >= 1
       /\ IsPendingPrefix(last.ran, PendingSet(last.dir, last.pre))
       /\ DOMAIN last.post.rows = DOMAIN last.pre.rows \cup done
       /\ \A v \in DOMAIN last.pre.rows :
            last.post.rows[v] = BackfillStmt(last.pre).rows[v]
       /\ last.post.schema = last.pre.schema \cup EffectsOf(last.migrations, done)
       /\ db = last.post

\* Scripts 001, 002, 003 with 002 invalid, from an empty ledger: ledger = {001}.
C2_Witness ==
  /\ last.op = "up" /\ last.err = "exec" /\ ~last.fault
  /\ DOMAIN last.pre.rows = {}
  /\ Len(last.migrations) = 3
  /\ Len(last.ran) = 2
  /\ last.migrations[2].SQLContent.kind = "bad"
  /\ DOMAIN last.post.rows = {last.ran[1]}

\* The forward scripts of the directories and the schema objects they create.
ForwardEffects ==
  UNION {{<<TrimSuffix(f, S_sql), d[f].of>> :
            f \in {g \in DOMAIN d : d[g].kind = "up"}} : d \in Dirs \cup {LateDir}}

\* C3: in every committed state, also after a failure or a crash inside an
\* apply or rollback transaction, the schema objects of a forward script
\* exist if and only if the ledger has the row of its version.
C3_AtomicLedger ==
  \A e \in ForwardEffects : (e[2] \in db.schema) <=> (e[1] \in DOMAIN db.rows)

\* A rollback transaction that had run the down script and deleted the row
\* failed at its commit: the row and the objects are still there.
C3_Witness ==
  /\ last.fault
  /\ last.err = "commit"
  /\ last.op = "last"
  /\ last.ran # <<>>
  /\ last.ran[1] \in DOMAIN db.rows
  /\ \E e \in ForwardEffects : e[1] = last.ran[1] /\ e[2] \in db.schema

\* The ledger rows of `rows` whose recorded checksum is a digest (neither the
\* legacy sentinel nor NULL) that differs from the checksum of the script
\* directory d holds for the version.
Tampered(d, rows) ==
  {v \in DOMAIN rows \cap CatalogVersions(d) :
     /\ rows[v].checksum \notin {LegacyChecksum, NULL}
     /\ rows[v].checksum # calculateChecksum(d[v \o S_sql])}

\* The ledger rows for whose version directory d holds no forward script.
Orphans(d, rows) == DOMAIN rows \ CatalogVersions(d)

\* Every row of the ledger before the call is still there, with the same
\* executed_at and, unless its checksum was NULL, the same checksum.
RowsKept(l) ==
  \A v \in DOMAIN l.pre.rows :
    /\ v \in DOMAIN l.post.rows
    /\ l.post.rows[v].executed_at = l.pre.rows[v].executed_at
    /\ l.pre.rows[v].checksum # NULL => l.post.rows[v] = l.pre.rows[v]

\* C4 as stated: the second of two RunMigrations calls in a row over an
\* unchanged directory that returns nil has executed no script and has left
\* the ledger rows as they were, whatever the first call returned.
C4_Original ==
  (last.op = "up" /\ last.after \in {"up_done", "up_aborted"} /\ last.err = "") =>
    /\ last.ran = <<>>
    /\ last.post.rows = last.pre.rows

\* C4 amended: a RunMigrations call that directly follows, over an unchanged
\* directory, a RunMigrations call whose loop ran to its end (it returned nil
\* or an integrity error) starts no script, at no moment changes a ledger row
\* (version, checksum, executed_at) or the schema, and returns what the
\* verification alone yields.
C4_Idempotent ==
  /\ \A p \in Procs :
       (proc[p].op = "up" /\ proc[p].after = "up_done") =>
         /\ proc[p].ran = <<>>
         /\ db.rows = proc[p].pre.rows
         /\ db.schema = proc[p].pre.schema
  /\ (last.op = "up" /\ last.after = "up_done") =>
       /\ last.ran = <<>>
       /\ last.post.rows = last.pre.rows
       /\ last.post.schema = last.pre.schema
       /\ db = last.post
       /\ ~last.fault => last.err \in {"", "orphan", "mismatch"}

C4_Witness ==
  /\ last.op = "up" /\ last.after = "up_done" /\ last.err = ""
  /\ Len(last.migrations) >= 2
  /\ DOMAIN last.pre.rows = CatalogVersions(last.dir)
  /\ last.post.rows = last.pre.rows

\* The verification of the call was reached and decided its result: no
\* statement failed and every pending script was applied.
Verified(l) == l.op = "up" /\ ~l.fault /\ l.err \in {"", "orphan", "mismatch"}

\* C5 as stated: a RunMigrations call that starts with a non-legacy ledger row
\* whose checksum differs from the catalog script's returns the checksum
\* mismatch error (no statement is made to fail by the environment, and no
\* ledger row is orphaned).
C5_Original ==
  (/\ last.op = "up"
   /\ Tampered(last.dir, last.pre.rows) # {}
   /\ Orphans(last.dir, last.pre.rows) = {}
   /\ ~last.fault) =>
    last.err = "mismatch"

\* C5 amended: a RunMigrations call that starts with a non-legacy ledger row
\* whose checksum differs from the catalog script's never returns nil; it
\* returns the checksum mismatch error when it reaches the verification
\* (every earlier step and every pending script succeeded) and no orphaned
\* row of a lower version is met first, in particular when no script is
\* pending; otherwise it returns the error of the step that failed.
C5_MismatchDetected ==
  (last.op = "up" /\ Tampered(last.dir, last.pre.rows) # {}) =>
    LET tampered == Tampered(last.dir, last.pre.rows)
        orphans == Orphans(last.dir, last.pre.rows)
        orphanFirst == \E o \in orphans : \A t \in tampered : StrLess(o, t)
    IN /\ last.err # ""
       /\ Verified(last) => last.err = (IF orphanFirst THEN "orphan" ELSE "mismatch")
       /\ (PendingSet(last.dir, last.pre) = {} /\ ~last.fault) => Verified(last)
       /\ (~last.fault /\ ~Verified(last)) =>
            /\ last.err \in {"exec", "insert"}
            /\ last.ran # <<>>

\* The script of an applied version was edited and nothing is pending: the
\* call returns the mismatch.
C5_Witness ==
  /\ last.op = "up" /\ last.err = "mismatch"
  /\ Tampered(last.dir, last.pre.rows) # {}
  /\ PendingSet(last.dir, last.pre) = {}
  /\ last.ran = <<>>

\* C6 as stated: a RunMigrations call that starts with a non-legacy ledger row
\* whose checksum differs from the catalog script's performs no mutation: it
\* leaves the ledger rows and the schema as they were.
C6_Original ==
  (last.op = "up" /\ Tampered(last.dir, last.pre.rows) # {}) =>
    /\ last.post.rows = last.pre.rows
    /\ last.post.schema = last.pre.schema

\* C6 amended: a RunMigrations call that starts with a non-legacy ledger row
\* whose checksum differs from the catalog script's changes and removes no
\* existing ledger row and never returns nil, but it runs the pending scripts
\* first: what it adds to the ledger and the schema is exactly the pending
\* scripts it committed, lowest versions first, and nothing at all when no
\* script is pending.
C6_NoMutationOfApplied ==
  (last.op = "up" /\ Tampered(last.dir, last.pre.rows) # {}) =>
    LET inserted == DOMAIN last.post.rows \ DOMAIN last.pre.rows IN
    /\ last.err # ""
    /\ RowsKept(last)
    /\ IsPendingPrefix(last.ran, PendingSet(last.dir, last.pre))
    /\ inserted \subseteq SeqSet(last.ran)
    /\ last.err = "mismatch" => inserted = PendingSet(last.dir, last.pre)
    /\ last.post.schema = last.pre.schema \cup EffectsOf(last.migrations, inserted)
    /\ PendingSet(last.dir, last.pre) = {} =>
         /\ last.ran = <<>>
         /\ last.post.rows = last.pre.rows
         /\ last.post.schema = last.pre.schema

\* An applied script was edited while another script was pending: the call
\* applies the pending script, inserts its row and then reports the mismatch.
C6_Witness ==
  /\ last.op = "up" /\ last.err = "mismatch"
  /\ Tampered(last.dir, last.pre.rows) # {}
  /\ last.ran # <<>>
  /\ SeqSet(last.ran) = DOMAIN last.post.rows \ DOMAIN last.pre.rows

\* The rows of the ledger that hold the legacy sentinel.
LegacyRows(rows) == {v \in DOMAIN rows : rows[v].checksum = LegacyChecksum}

\* C7: a ledger row holding legacy_migration_no_checksum_available never
\* makes the verification of RunMigrations fail with a checksum mismatch,
\* whatever the checksum of the catalog script of its version: the mismatch
\* error is returned only when a row that does not hold the sentinel differs
\* from its script, and a call that no statement failure ends and that meets
\* no such row and no orphan returns nil.
C7_LegacyTolerated ==
  /\ (last.op = "up" /\ last.err = "mismatch") =>
       Tampered(last.dir, last.post.rows) \ LegacyRows(last.post.rows) # {}
  /\ (/\ last.op = "up"
      /\ ~last.fault
      /\ last.err \notin {"exec", "insert"}
      /\ Tampered(last.dir, last.pre.rows) = {}
      /\ Orphans(last.dir, last.pre.rows) = {}) =>
       last.err = ""

\* A ledger row holds the sentinel, the script of its version has been
\* edited since, and RunMigrations returns nil.
C7_Witness ==
  /\ last.op = "up" /\ last.err = ""
  /\ \E v \in LegacyRows(last.post.rows) :
       /\ v \in CatalogVersions(last.dir)
       /\ last.dir[v \o S_sql].rev = 1

\* C8: a RunMigrations call that starts with a ledger row for whose version
\* the catalog has no script never returns nil; when it reaches the
\* verification it returns the orphaned-entry error, unless the mismatch of
\* a row of a lower version is met first.
C8_OrphanFails ==
  (last.op = "up" /\ Orphans(last.dir, last.pre.rows) # {}) =>
    LET tampered == Tampered(last.dir, last.pre.rows)
        orphans == Orphans(last.dir, last.pre.rows)
        tamperedFirst == \E t \in tampered : \A o \in orphans : StrLess(t, o)
    IN /\ last.err # ""
       /\ Verified(last) => last.err = (IF tamperedFirst THEN "mismatch" ELSE "orphan")
       /\ (PendingSet(last.dir, last.pre) = {} /\ ~last.fault) => Verified(last)

\* The script of an applied version was deleted: the call returns the
\* orphaned-entry error.
C8_Witness ==
  /\ last.op = "up" /\ last.err = "orphan"
  /\ Orphans(last.dir, last.pre.rows) # {}
  /\ DOMAIN last.post.rows = DOMAIN last.pre.rows

\* C9: in the round trip (SpecRoundTrip) every call returns nil, the two
\* rollback-last calls each roll back the greatest applied version, and
\* after the third call the ledger is empty and the schema is the one
\* before the first call.
C9_RoundTrip ==
  /\ last.err = ""
  /\ (last.op = "last" /\ calls = 2) =>
       /\ Len(last.ran) = 1
       /\ DOMAIN last.post.rows = DOMAIN last.pre.rows \ {last.ran[1]}
  /\ (calls = 3 /\ \A p \in Procs : proc[p].pc = "idle") =>
       /\ db.table
       /\ DOMAIN db.rows = {}
       /\ db.schema = {}

\* C10: a RollbackLastMigration call on a database with no applied version,
\* which no failing statement ends, returns nil, runs no script and leaves
\* the database as it was: also on a database on which RunMigrations has
\* never run (no schema_migrations table).
C10_EmptyRollback ==
  (last.op = "last" /\ DOMAIN last.pre.rows = {} /\ ~last.fault) =>
    /\ last.err = ""
    /\ last.ran = <<>>
    /\ last.post = last.pre
    /\ db = last.pre

\* The versions of `rows` strictly greater than target (Go string order).
Above(rows, target) == {v \in DOMAIN rows : StrLess(target, v)}

\* C11 as stated: when RunDownMigrations(target) returns nil, the ledger rows
\* removed are exactly the applied versions strictly greater than target: no
\* row greater than target is left and every other row is unchanged.
C11_Original ==
  (last.op = "down" /\ last.err = "") =>
    /\ DOMAIN last.post.rows = DOMAIN last.pre.rows \ Above(last.pre.rows, last.target)
    /\ \A v \in DOMAIN last.post.rows : last.post.rows[v] = last.pre.rows[v]

\* The versions the switch of the rollback names (lines 341-347).
BuiltinVersions == {V_001, V_002, V_003}

\* The documented name of the reverse script of version NNN_description:
\* NNN_down_description.sql.
DocumentedDown(version) ==
  SubSeq(version, 1, 3) \o S_down \o SubSeq(version, 5, Len(version)) \o S_sql

\* C12: when RollbackLastMigration or RunDownMigrations is about to resolve
\* the down file of an applied version that is not one of the built-in ones,
\* and the directory holds the file under the documented reverse name, the
\* file resolved (the directory scan succeeding) is that file.
C12_DocumentedName ==
  \A p \in Procs :
    (/\ proc[p].pc = "resolve"
     /\ proc[p].version \notin BuiltinVersions
     /\ DocumentedDown(proc[p].version) \in DOMAIN dir) =>
      DownFilename(dir, proc[p].version, TRUE) = DocumentedDown(proc[p].version)

\* A name loadMigrationFiles may return from directory d: a regular file
\* with the .sql extension and without the "_down_" marker.
ForwardName(d, name) ==
  /\ name \in DOMAIN d
  /\ d[name].kind # "dir"
  /\ HasSuffix(name, S_sql)
  /\ ~Contains(name, S_down)

\* C13: loadMigrationFiles never returns a file whose name contains "_down_",
\* a directory or a file without the .sql extension; so every catalog a
\* RunMigrations or RunDownMigrations call holds consists of such files read
\* from the directory, and every script RunMigrations starts is one of them.
C13_NoDownInCatalog ==
  /\ \A p \in Procs : \A k \in 1..Len(proc[p].migrations) :
       /\ ForwardName(dir, proc[p].migrations[k].Filename)
       /\ proc[p].migrations[k].SQLContent = dir[proc[p].migrations[k].Filename]
       /\ proc[p].migrations[k].Version \o S_sql = proc[p].migrations[k].Filename
  /\ \A p \in Procs :
       (proc[p].op = "up" /\ proc[p].pc \in {"begin", "exec", "insert", "commit"}) =>
         /\ ForwardName(dir, proc[p].version \o S_sql)
         /\ proc[p].migrations[proc[p].i].Filename = proc[p].version \o S_sql
  /\ last.op = "up" => \A v \in SeqSet(last.ran) : ForwardName(last.dir, v \o S_sql)

\* RunMigrations returned nil over a directory that holds a reverse script, a
\* sub-directory named *.sql and a file without the extension, having run
\* the one forward script.
C13_Witness ==
  /\ last.op = "up" /\ last.err = ""
  /\ last.dir = DirMixed
  /\ last.ran = <<TrimSuffix(F_001_a, S_sql)>>
  /\ DOMAIN last.post.rows = {TrimSuffix(F_001_a, S_sql)}

\* C14: for every set of files in the directory, what LoadMigrationFiles
\* returns is sorted by version in strictly ascending Go string order, no
\* two of its scripts share a version, and its versions are exactly the
\* names of the forward files without the .sql suffix.
C14_SortedCatalog ==
  last.op = "load" =>
    LET migrations == last.migrations
        n == Len(migrations)
    IN /\ \A j \in 1..n : \A k \in 1..n :
            j < k => StrLess(migrations[j].Version, migrations[k].Version)
       /\ \A j \in 1..n : \A k \in 1..n :
            migrations[j].Version = migrations[k].Version => j = k
       /\ {migrations[k].Filename : k \in 1..n}
            = {f \in DOMAIN last.dir : ForwardName(last.dir, f)}
       /\ n = Cardinality({f \in DOMAIN last.dir : ForwardName(last.dir, f)})
       /\ \A k \in 1..n : migrations[k].Version = TrimSuffix(migrations[k].Filename, S_sql)

\* A catalog of at least four scripts whose version order is not the order
\* of the file names: 001_a-b.sql precedes 001_a.sql in the directory
\* listing, version 001_a precedes 001_a-b.
C14_Witness ==
  /\ last.op = "load"
  /\ Len(last.migrations) >= 4
  /\ \E j \in 1..Len(last.migrations) : \E k \in 1..Len(last.migrations) :
       /\ j < k
       /\ StrLess(last.migrations[k].Filename, last.migrations[j].Filename)

\* C15: the status operation changes no persisted state: while it runs and
\* when it ends (normally or not) the database is the one before the call;
\* and the pending scripts it prints are exactly the catalog versions absent
\* from the ledger, in catalog order.
C15_StatusReadOnly ==
  /\ \A p \in Procs : proc[p].op = "status" => db = proc[p].pre
  /\ last.op = "status" =>
       /\ last.post = last.pre
       /\ db = last.pre
       /\ last.err = "" =>
            LET pending == PendingReported(last.migrations, last.executed) IN
            /\ {pending[k].Version : k \in 1..Len(pending)}
                 = PendingSet(last.dir, last.pre)
            /\ Ascending([k \in 1..Len(pending) |-> pending[k].Version])
            /\ last.executed = DOMAIN last.pre.rows

\* Status on a ledger that holds some of the catalog's versions and lacks
\* others.
C15_Witness ==
  /\ last.op = "status" /\ last.err = ""
  /\ DOMAIN last.pre.rows # {}
  /\ PendingReported(last.migrations, last.executed) # <<>>
  /\ Len(PendingReported(last.migrations, last.executed)) < Len(last.migrations)

\* In ascending version order the executed_at of the rows never decreases.
Ordered(rows) ==
  \A v \in DOMAIN rows : \A w \in DOMAIN rows :
    StrLess(v, w) => rows[v].executed_at <= rows[w].executed_at

\* C16 as stated: after a RunMigrations call that returned nil, the ledger
\* rows in ascending version order have non-decreasing executed_at.
C16_Original ==
  (last.op = "up" /\ last.err = "") => Ordered(last.post.rows)

\* C16 amended: after a RunMigrations call that returned nil, the rows it
\* inserted have, in ascending version order, non-decreasing executed_at,
\* none earlier than that of a row that was there before; hence the
\* whole ledger is in non-decreasing order when the call started from an
\* empty ledger, or from an ordered one with every pending version above
\* every applied one.
C16_OrderedTimestamps ==
  (last.op = "up" /\ last.err = "") =>
    LET ran == last.ran
        at(v) == last.post.rows[v].executed_at
    IN /\ SeqSet(ran) \subseteq DOMAIN last.post.rows
       /\ \A v \in SeqSet(ran) : \A w \in SeqSet(ran) : StrLess(v, w) => at(v) <= at(w)
       /\ \A v \in DOMAIN last.pre.rows : \A k \in 1..Len(ran) :
            last.pre.rows[v].executed_at <= at(ran[k])
       /\ DOMAIN last.pre.rows = {} => Ordered(last.post.rows)
       /\ (/\ Ordered(last.pre.rows)
           /\ \A v \in DOMAIN last.pre.rows : \A k \in 1..Len(ran) : StrLess(v, ran[k])) =>
            Ordered(last.post.rows)

\* A full run from an empty ledger over three scripts.
C16_Witness ==
  /\ last.op = "up" /\ last.err = ""
  /\ DOMAIN last.pre.rows = {}
  /\ Len(last.ran) = 3
  /\ Ordered(last.post.rows)
  /\ last.post.rows[last.ran[1]].executed_at < last.post.rows[last.ran[3]].executed_at

\* v is the greatest element of S in Go string order.
IsGreatest(v, S) == v \in S /\ \A w \in S : w = v \/ StrLess(w, v)

\* C17: RollbackLastMigration on a ledger that holds rows selects the
\* greatest applied version in Go string order (it does so in every call no
\* system fault ends before the selection), and when it returns nil the
\* ledger is the ledger before the call without that version's row: every
\* other row is there, unchanged.
C17_LastSelected ==
  (last.op = "last" /\ last.pre.table /\ DOMAIN last.pre.rows # {}) =>
    /\ ~last.fault => last.ran # <<>>
    /\ last.ran # <<>> =>
         /\ Len(last.ran) = 1
         /\ IsGreatest(last.ran[1], DOMAIN last.pre.rows)
    /\ last.err = "" =>
         /\ last.ran # <<>>
         /\ last.post.table
         /\ last.post.rows =
              Restrict(last.pre.rows, DOMAIN last.pre.rows \ {last.ran[1]})

\* RollbackLastMigration returned nil on a ledger of three rows: the two
\* smaller versions are still recorded.
C17_Witness ==
  /\ last.op = "last" /\ last.err = ""
  /\ Cardinality(DOMAIN last.pre.rows) = 3
  /\ Cardinality(DOMAIN last.post.rows) = 2
  /\ \E v \in DOMAIN last.pre.rows :
       /\ IsGreatest(v, DOMAIN last.pre.rows)
       /\ DOMAIN last.post.rows = DOMAIN last.pre.rows \ {v}

\* C18: when RollbackLastMigration returns the error of the down script's
\* execution, of the ledger DELETE or of the commit, the database after the
\* call is the database before it: the same ledger table, index and rows and
\* the same schema effects.
C18_FailedRollbackUndone ==
  (last.op = "last" /\ last.err \in {"exec", "delete", "commit"}) =>
    /\ last.ran # <<>>
    /\ last.post = last.pre
    /\ db = last.pre

\* The down script of the only applied version ran and dropped the ledger
\* table inside the transaction, the DELETE then failed without any system
\* fault, and the table, its row and the schema are as before the call.
C18_Witness ==
  /\ last.op = "last" /\ last.err = "delete" /\ ~last.fault
  /\ last.pre.table /\ DOMAIN last.pre.rows # {}
  /\ last.pre.schema # {}
  /\ last.post = last.pre

\* The versions of a sequence fall strictly in Go string order.
Descending(versions) ==
  \A j, k \in 1..Len(versions) : j < k => StrLess(versions[k], versions[j])

\* C19: RunDownMigrations starts its candidates in strictly descending
\* version order; while it resolves and reads a candidate's down file and
\* up to the Begin no transaction is open and the row of every candidate
\* started before is gone from the committed ledger; the transaction of a
\* candidate deletes no row but that candidate's.
C19_DescendingOwnTx ==
  /\ last.op = "down" => Descending(last.ran)
  /\ \A p \in Procs : (proc[p].op = "down" /\ proc[p].ran # <<>>) =>
       LET ran == proc[p].ran
           n == Len(ran)
       IN /\ Descending(ran)
          /\ ran[n] = proc[p].version
          /\ \A k \in 1..(n - 1) : ran[k] \notin DOMAIN db.rows
          /\ proc[p].pc \in {"resolve", "read", "begin"} => proc[p].tx = NoTx
          /\ proc[p].pc \in {"exec", "delete", "commit"} =>
               /\ proc[p].tx.open
               /\ proc[p].tx.at = now
               /\ proc[p].tx.del \subseteq {ran[n]}
               /\ proc[p].tx.ins = NoRows

\* RunDownMigrations rolled the two applied versions back, the greater
\* first, with one commit each, and returned nil.
C19_Witness ==
  /\ last.op = "down" /\ last.err = ""
  /\ Len(last.ran) = 2
  /\ StrLess(last.ran[2], last.ran[1])
  /\ DOMAIN last.pre.rows = SeqSet(last.ran)
  /\ DOMAIN last.post.rows = {}
  /\ \A v \in DOMAIN last.pre.rows : now >= last.pre.rows[v].executed_at + 2

\* The errors RunDownMigrations returns from inside its loop, on a candidate.
CandidateErrors == {"read_down", "begin", "exec", "delete", "commit"}

\* C20: when RunDownMigrations returns an error on a candidate, that
\* candidate is the last it started; the candidates started before it (the
\* greater versions) have no ledger row and no schema effect left; every
\* other row of the ledger before the call, the failed candidate's and those
\* of smaller versions among them, is there unchanged with its schema
\* effect, and the ledger table itself is as before.
C20_PartialRollback ==
  (last.op = "down" /\ last.err \in CandidateErrors) =>
    /\ last.ran # <<>>
    /\ LET n == Len(last.ran)
           failed == last.ran[n]
           done == {last.ran[k] : k \in 1..(n - 1)}
       IN /\ \A v \in done : StrLess(failed, v)
          /\ done \subseteq DOMAIN last.pre.rows
          /\ failed \in DOMAIN last.pre.rows
          /\ last.post.rows = Restrict(last.pre.rows, DOMAIN last.pre.rows \ done)
          /\ last.post.table = last.pre.table
          /\ last.post.index = last.pre.index
          /\ last.post.checksumCol = last.pre.checksumCol
          /\ \A e \in ForwardEffects :
               e[1] \in DOMAIN last.pre.rows =>
                 IF e[1] \in done
                 THEN e[2] \notin last.post.schema
                 ELSE (e[2] \in last.post.schema) <=> (e[2] \in last.pre.schema)
    /\ db = last.post

\* RunDownMigrations failed on the second of three candidates: the greatest
\* version is rolled back, the failed one and the smaller one are recorded
\* with their schema objects.
C20_Witness ==
  /\ last.op = "down" /\ last.err \in CandidateErrors
  /\ last.target = <<>>
  /\ Len(last.ran) = 2
  /\ Cardinality(DOMAIN last.pre.rows) = 3
  /\ DOMAIN last.post.rows = DOMAIN last.pre.rows \ {last.ran[1]}
  /\ \E v \in DOMAIN last.post.rows :
       /\ StrLess(v, last.ran[2])
       /\ v \in CatalogVersions(last.dir)
  /\ Cardinality(last.post.schema) = 2

\* Directory d holds no regular file under the name the rollback resolves
\* for version, whether its directory scan works or not.
NoDownFile(d, version) ==
  \A scanned \in BOOLEAN :
    LET name == DownFilename(d, version, scanned)
    IN name \notin DOMAIN d \/ IsDir(d, name)

\* C21: when the down file of the version being rolled back cannot be read,
\* RollbackLastMigration and RunDownMigrations return the read error; while
\* the file is resolved and read no transaction is open; after the error
\* the version's ledger row and schema effect are as before the call, and
\* RollbackLastMigration leaves the whole database as it was.
C21_NoDownScript ==
  /\ \A p \in Procs : proc[p].pc \in {"resolve", "read"} => proc[p].tx = NoTx
  /\ (last.op \in {"last", "down"} /\ last.ran # <<>> /\ ~last.fault
        /\ NoDownFile(last.dir, last.ran[Len(last.ran)])) =>
       last.err = "read_down"
  /\ (last.op \in {"last", "down"} /\ last.err = "read_down") =>
       /\ last.ran # <<>>
       /\ LET version == last.ran[Len(last.ran)] IN
          /\ version \in DOMAIN last.pre.rows
          /\ version \in DOMAIN last.post.rows
          /\ last.post.rows[version] = last.pre.rows[version]
          /\ \A e \in ForwardEffects :
               e[1] = version =>
                 ((e[2] \in last.post.schema) <=> (e[2] \in last.pre.schema))
       /\ last.op = "last" => last.post = last.pre
       /\ db = last.post

\* RollbackLastMigration found no down file for the greatest applied
\* version and returned the read error; the three rows and their schema
\* objects are untouched.
C21_Witness ==
  /\ last.op = "last" /\ last.err = "read_down" /\ ~last.fault
  /\ Cardinality(DOMAIN last.pre.rows) = 3
  /\ NoDownFile(last.dir, last.ran[1])
  /\ last.pre.schema # {}
  /\ last.post = last.pre

(***************************************************************************)
(* createMigrationsTable on the databases a deployment may start from.     *)
(***************************************************************************)
\* The checksum values a row may hold at startup: NULL, the legacy
\* sentinel, the checksum of the script.
StartChecksums(f) == {NULL, LegacyChecksum, calculateChecksum(DirPlain[f])}

\* The databases createMigrationsTable is started on: no ledger table, or a
\* ledger with or without its index and its checksum column, holding any of
\* the first two versions of DirPlain.
StartDbs ==
  {EmptyDb} \cup
  UNION {
    {[table |-> TRUE, index |-> ix, checksumCol |-> col,
      rows |-> [v \in {TrimSuffix(f, S_sql) : f \in fs} |->
                 [checksum |-> c[v \o S_sql], executed_at |-> 0]],
      schema |-> {DirPlain[f].of : f \in fs}] :
       c \in [fs -> IF col THEN UNION {StartChecksums(f) : f \in fs} ELSE {NULL}]} :
    ix \in BOOLEAN, col \in BOOLEAN, fs \in SUBSET {F_001_a, F_002_b}}

InitEnsure ==
  /\ dir = DirPlain
  /\ db \in StartDbs
  /\ now = 1
  /\ proc = [p \in Procs |-> IdleProc]
  /\ last = NoCall
  /\ calls = 0
  /\ edits = 0

\* RunMigrations up to the end of createMigrationsTable, again and again:
\* each run ends when the directory cannot be read.
NextEnsure ==
  \E p \in Procs :
    \/ Call(p, "up", <<>>)
    \/ CreateTable(p)
    \/ CreateIndex(p)
    \/ AddColumn(p)
    \/ Backfill(p)
    \/ FsFault(p)

SpecEnsure == InitEnsure /\ [][NextEnsure]_vars

\* The rows of a database that has no ledger table are none.
RowsOf(d) == IF d.table THEN d.rows ELSE NoRows

\* C22: when createMigrationsTable has run, the ledger table, its index and
\* its checksum column exist and no row has a NULL checksum; the rows are
\* those of before with the same executed_at, a checksum that was NULL is
\* the legacy sentinel and every other checksum is unchanged; the schema is
\* untouched; and a run after a completed run leaves the database as it
\* found it.
C22_EnsureIdempotent ==
  \A p \in Procs : (proc[p].op = "up" /\ proc[p].pc = "load") =>
    LET pre == proc[p].pre
        was == RowsOf(pre)
    IN /\ db.table /\ db.index /\ db.checksumCol
       /\ \A v \in DOMAIN db.rows : db.rows[v].checksum # NULL
       /\ DOMAIN db.rows = DOMAIN was
       /\ \A v \in DOMAIN was :
            /\ db.rows[v].executed_at = was[v].executed_at
            /\ db.rows[v].checksum =
                 IF was[v].checksum = NULL THEN LegacyChecksum ELSE was[v].checksum
       /\ db.schema = pre.schema
       /\ calls >= 2 => db = pre
       /\ BackfillStmt(AddColumnStmt(CreateIndexStmt(CreateTableStmt(db)))) = db

\* createMigrationsTable has run a second time, on a ledger that holds one
\* row under the legacy sentinel and one under its script's checksum, and
\* found nothing to change.
C22_Witness ==
  /\ calls = 2
  /\ \E p \in Procs :
       /\ proc[p].op = "up" /\ proc[p].pc = "load"
       /\ db = proc[p].pre
       /\ \E v \in DOMAIN db.rows : db.rows[v].checksum = LegacyChecksum
       /\ \E v \in DOMAIN db.rows : db.rows[v].checksum \notin {NULL, LegacyChecksum}

(***************************************************************************)
(* Two engine instances on one database.                                   *)
(***************************************************************************)
Racers == {1, 2}

\* Two migrate processes are started over the same directory and the same
\* empty database.
InitRace ==
  /\ dir \in {DirScan, DirShipped}
  /\ db = EmptyDb
  /\ now = 1
  /\ proc = [p \in Racers |-> IdleProc]
  /\ last = NoCall
  /\ calls = 0
  /\ edits = 0

\* Each instance runs up, rollback-last or down, one statement at a time,
\* interleaved with the statements of the other.
NextRace ==
  \E p \in Racers :
    \/ Call(p, "up", <<>>)
    \/ Call(p, "last", <<>>)
    \/ Call(p, "down", <<>>)
    \/ CreateTable(p)
    \/ CreateIndex(p)
    \/ AddColumn(p)
    \/ Backfill(p)
    \/ LoadFiles(p)
    \/ GetExecuted(p)
    \/ Resolve(p)
    \/ ReadDown(p)
    \/ Begin(p)
    \/ Exec(p)
    \/ Insert(p)
    \/ Delete(p)
    \/ Commit(p)
    \/ Verify(p)

SpecRace == InitRace /\ [][NextRace]_vars

\* C23 as stated: a rollback transaction never commits, and so the rollback
\* of a version is never reported as done, when its DELETE found no ledger
\* row of that version to remove.
C23_ZeroRowsReported ==
  [][\A p \in DOMAIN proc :
       (/\ proc[p].op \in {"last", "down"}
        /\ proc[p].pc = "commit"
        /\ proc'[p] # proc[p]
        /\ now' # now) =>
         proc[p].version \in proc[p].tx.del]_vars

\* The step is the commit of the transaction of instance p.
CommitsTx(p) == proc[p].pc = "commit" /\ proc'[p] # proc[p] /\ now' # now

\* C24: with two instances running at once, no step changes a ledger row
\* that exists before and after it; a transaction of RunMigrations that
\* commits inserts only versions that have no committed row and creates
\* only schema objects that do not exist, so every version gets its row and
\* its effects once; and an instance whose INSERT meets the committed row
\* of the other returns the insert error from RunMigrations, its
\* transaction leaving nothing behind.
C24_ConcurrentApply ==
  [][/\ \A v \in DOMAIN db.rows \cap DOMAIN db'.rows : db'.rows[v] = db.rows[v]
     /\ \A p \in DOMAIN proc :
          /\ (proc[p].op = "up" /\ CommitsTx(p)) =>
               /\ DOMAIN proc[p].tx.ins \cap DOMAIN db.rows = {}
               /\ proc[p].tx.add \cap db.schema = {}
               /\ DOMAIN db'.rows = DOMAIN db.rows \cup DOMAIN proc[p].tx.ins
               /\ db'.schema = db.schema \cup proc[p].tx.add
          /\ (/\ proc[p].op = "up" /\ proc[p].pc = "insert"
              /\ proc'[p] # proc[p]
              /\ db.table /\ proc[p].version \in DOMAIN db.rows) =>
               /\ proc'[p].pc = "idle"
               /\ last'.op = "up" /\ last'.err = "insert"
               /\ db' = db]_vars

\* Both instances ran RunMigrations on the empty database; one of them has
\* just returned the insert error for a version whose row the other
\* committed after this one had read the ledger.
C24_Witness ==
  /\ last.op = "up" /\ last.err = "insert" /\ ~last.fault
  /\ last.pre = EmptyDb
  /\ last.ran # <<>>
  /\ last.ran[Len(last.ran)] \in DOMAIN db.rows
  /\ last.ran[Len(last.ran)] \notin last.executed
  /\ last.post = db

\* C25: a version a rollback has just rolled back has no ledger row, so it is
\* one of the versions RunMigrations finds pending; a RunMigrations call that
\* returns nil has executed the forward script of every catalog version that
\* had no row when it started and has inserted a row for it, stamped later
\* than every row that was there; and a step makes the row of a version
\* appear only as the commit of the RunMigrations transaction that inserted
\* it, and disappear only as the commit of the rollback transaction that
\* deleted it.
C25_Reapplied ==
  /\ [](((last.op \in {"last", "down"} /\ last.err = "") =>
          \A v \in SeqSet(last.ran) :
            /\ v \in DOMAIN last.pre.rows
            /\ v \notin DOMAIN db.rows
            /\ v \in CatalogVersions(dir) => v \in PendingSet(dir, db)))
  /\ [](((last.op = "up" /\ last.err = "") =>
          \A v \in CatalogVersions(last.dir) \ DOMAIN last.pre.rows :
            /\ v \in SeqSet(last.ran)
            /\ v \in DOMAIN last.post.rows
            /\ \A w \in DOMAIN last.pre.rows :
                 last.post.rows[v].executed_at > last.pre.rows[w].executed_at))
  /\ [][\A v \in DOMAIN db.rows \cup DOMAIN db'.rows :
         ((v \in DOMAIN db.rows) # (v \in DOMAIN db'.rows)) =>
           \E p \in DOMAIN proc :
             /\ CommitsTx(p)
             /\ proc[p].version = v
             /\ IF v \in DOMAIN db'.rows
                THEN proc[p].op = "up" /\ v \in DOMAIN proc[p].tx.ins
                ELSE proc[p].op \in {"last", "down"} /\ v \in proc[p].tx.del]_vars

\* RunMigrations has run again right after a rollback, with the directory
\* as it was: it executed the one script that the rollback had made
\* pending again, and the new row is stamped after the first application
\* and the rollback.
C25_Witness ==
  /\ last.op = "up" /\ last.err = "" /\ last.after = "" /\ edits = 0
  /\ Len(last.ran) = 1
  /\ last.ran[1] \in DOMAIN last.post.rows
  /\ \E w \in DOMAIN last.pre.rows :
       /\ StrLess(w, last.ran[1])
       /\ last.pre.rows[w].executed_at >= 1
       /\ last.post.rows[last.ran[1]].executed_at >= last.pre.rows[w].executed_at + 3

\* C26: the checksum RunMigrations inserts with a version is
\* calculateChecksum of the very text its transaction executed, which is the
\* content of the version's file; the rows a call inserted carry the
\* checksum of their file as the directory holds it when the call returns;
\* and when the call returns nil every row that is not under the legacy
\* sentinel has a script in the catalog and carries that script's checksum.
C26_ChecksumOfBody ==
  /\ \A p \in DOMAIN proc :
       (proc[p].op = "up" /\ proc[p].pc \in {"exec", "insert", "commit"}) =>
         LET m == proc[p].migrations[proc[p].i] IN
         /\ m.Version = proc[p].version
         /\ m.SQLContent = dir[m.Filename]
         /\ m.Checksum = calculateChecksum(m.SQLContent)
         /\ proc[p].pc = "commit" =>
              /\ DOMAIN proc[p].tx.ins = {m.Version}
              /\ proc[p].tx.ins[m.Version].checksum = calculateChecksum(m.SQLContent)
  /\ last.op = "up" =>
       \A v \in DOMAIN last.post.rows \ DOMAIN last.pre.rows :
         /\ v \o S_sql \in DOMAIN dir
         /\ last.post.rows[v].checksum = calculateChecksum(dir[v \o S_sql])
  /\ (last.op = "up" /\ last.err = "") =>
       \A v \in DOMAIN db.rows :
         db.rows[v].checksum # LegacyChecksum =>
           /\ v \in CatalogVersions(dir)
           /\ db.rows[v].checksum = calculateChecksum(dir[v \o S_sql])

\* RunMigrations returned nil on a ledger that holds a legacy row and two
\* rows it has just inserted, with two different checksums.
C26_Witness ==
  /\ last.op = "up" /\ last.err = ""
  /\ Len(last.ran) = 2
  /\ \E v \in DOMAIN db.rows : db.rows[v].checksum = LegacyChecksum
  /\ db.rows[last.ran[1]].checksum # db.rows[last.ran[2]].checksum
  /\ \A k \in 1..2 :
       db.rows[last.ran[k]].checksum = calculateChecksum(dir[last.ran[k] \o S_sql])

IsDigit(c) == Ord[c] >= Ord["0"] /\ Ord[c] <= Ord["9"]

\* The number the leading decimal digits of a version denote (0 when it
\* starts with none).
RECURSIVE NumericPrefixFrom(_, _, _)
NumericPrefixFrom(version, k, acc) ==
  IF k > Len(version) \/ ~IsDigit(version[k]) THEN acc
  ELSE NumericPrefixFrom(version, k + 1, 10 * acc + (Ord[version[k]] - Ord["0"]))

NumericPrefix(version) == NumericPrefixFrom(version, 1, 0)

\* NNN_description: three digits, an underscore, a description.
ZeroPadded(version) ==
  /\ Len(version) >= 5
  /\ \A k \in 1..3 : IsDigit(version[k])
  /\ version[4] = "_"

\* C27 as stated: every version LoadMigrationFiles returns has the form
\* NNN_description, and the order of the catalog (the order in which
\* RunMigrations applies) is the order of the numeric prefixes.
C27_NumericOrder ==
  last.op = "load" =>
    /\ \A k \in 1..Len(last.migrations) : ZeroPadded(last.migrations[k].Version)
    /\ \A j, k \in 1..Len(last.migrations) :
         j < k => NumericPrefix(last.migrations[j].Version)
                    <= NumericPrefix(last.migrations[k].Version)

\* The versions of `rows` are the lowest versions of the catalog of d: each
\* has a forward script, and so has none below it without a row.
AppliedPrefix(d, rows) ==
  \A v \in DOMAIN rows :
    /\ v \in CatalogVersions(d)
    /\ \A w \in CatalogVersions(d) : StrLess(w, v) => w \in DOMAIN rows

\* C28: as long as the directory is the one the engine started with, at
\* every moment of every sequence of RunMigrations, RollbackLastMigration
\* and RunDownMigrations calls, failed or not, the committed ledger holds a
\* prefix of the catalog in ascending version order (the ledger was empty,
\* or held the first version, at the start).
C28_AppliedPrefix ==
  edits = 0 => AppliedPrefix(dir, db.rows)

\* A rollback has failed part way, after an earlier call: one version is
\* rolled back, a proper non-empty prefix of the catalog is left applied.
C28_Witness ==
  /\ edits = 0 /\ calls >= 2
  /\ last.op = "down" /\ last.err # ""
  /\ Len(last.ran) = 2
  /\ last.pre.rows # NoRows
  /\ DOMAIN db.rows = DOMAIN last.pre.rows \ {last.ran[1]}
  /\ DOMAIN db.rows # {}
  /\ AppliedPrefix(dir, db.rows)

\* C29 as stated: RollbackLastMigration that selects
\* 001_create_schema_migrations_table and reads the shipped down script,
\* with no system fault, returns nil and leaves no ledger row of that
\* version.
C29_ShippedRollback ==
  (/\ last.op = "last" /\ ~last.fault
   /\ last.ran = <<V_001>>
   /\ D_001 \in DOMAIN last.dir
   /\ last.dir[D_001] = DirShipped[D_001]) =>
    /\ last.err = ""
    /\ V_001 \notin DOMAIN RowsOf(last.post)

\* C30 as stated: no script LoadMigrationFiles returns is read from a file
\* that the rollback resolves as the down file of a version of the catalog
\* (by the built-in names, by the directory scan or by the synthesized name).
C30_DownNeverForward ==
  last.op = "load" =>
    \A k \in 1..Len(last.migrations) :
      \A v \in Versions(last.migrations) : \A scanned \in BOOLEAN :
        last.migrations[k].Filename # DownFilename(last.dir, v, scanned)

====
